---- MODULE Spec2Model ----
(***************************************************************************)
(* Programmer Search (src/main.py): the search window's handlers (query    *)
(* submission, result display, result activation) and the domain matching  *)
(* of Window.is_prioritized.                                               *)
(*                                                                         *)
(* Strings are sequences of one-character strings, so that parsing,        *)
(* lower-casing, stripping and suffix matching are computed character by   *)
(* character as the Python code computes them.                             *)
(***************************************************************************)
EXTENDS Integers, Sequences, FiniteSets, TLC

VARIABLES
    prioritized_sites,  \* Window.prioritized_sites: list of pattern strings
    browser_windows,    \* Window.browser_windows: URL of each opened BrowserWindow
    search_input,       \* text of Window.search_input
    results_layout,     \* widgets of Window.results_layout, top to bottom
    provider_calls,     \* number of ddgs.text calls made so far
    last_results,       \* what the provider returned to the latest search ([] after a failure)
    last_outcome,       \* "none" | "ok" | "raised": how the latest provider call ended
    uncaught,           \* an exception escaped a handler
    trace,              \* the handler that ran last (observation only)
    url,                \* argument of the is_prioritized call under test
    ret,                \* its return value ("none" before the call)
    pc                  \* "idle" | "call" | "done": position of that call

vars == <<prioritized_sites, browser_windows, search_input, results_layout,
          provider_calls, last_results, last_outcome, uncaught, trace, url, ret, pc>>

gui_vars == <<browser_windows, search_input, results_layout, provider_calls,
              last_results, last_outcome, uncaught, trace>>

-----------------------------------------------------------------------------
(* Bounds of the model.                                                    *)

\* longest host core (the part after an optional "www.") of a checked URL or pattern
MaxDomainLen == 2
\* most records the provider returns to one search
MaxReturned == 2
\* most provider calls in one run
MaxCalls == 2
\* most browser windows opened in one run
MaxWindows == 2

-----------------------------------------------------------------------------
(* Python string operations, character by character.                       *)

HTTP == <<"h", "t", "t", "p", ":", "/", "/">>
HTTPS == <<"h", "t", "t", "p", "s", ":", "/", "/">>
WWW == <<"w", "w", "w", ".">>

\* str.lower() on the model's alphabet
lower_char(c) ==
    CASE c = "W" -> "w"
      [] c = "A" -> "a"
      [] c = "H" -> "h"
      [] c = "T" -> "t"
      [] c = "P" -> "p"
      [] c = "S" -> "s"
      [] OTHER -> c

RECURSIVE lower(_)
lower(s) == IF s = <<>> THEN <<>> ELSE <<lower_char(Head(s))>> \o lower(Tail(s))

\* s[i:] of Python, i counted from 0
from(s, i) == IF i >= Len(s) THEN <<>> ELSE SubSeq(s, i + 1, Len(s))

\* s[:i] of Python
upto(s, i) == IF i <= 0 THEN <<>> ELSE SubSeq(s, 1, IF i > Len(s) THEN Len(s) ELSE i)

\* str.startswith / the slice comparison url[:2] == '//'
startswith(s, prefix) == upto(s, Len(prefix)) = prefix

\* the set of characters that the argument 'www.' of str.lstrip denotes
WwwChars == {WWW[i] : i \in 1..Len(WWW)}

\* str.lstrip(chars): drops every leading character that is in the set chars
RECURSIVE lstrip(_, _)
lstrip(s, chars) ==
    IF s # <<>> /\ Head(s) \in chars THEN lstrip(Tail(s), chars) ELSE s

\* str.endswith(suffix)
endswith(s, suffix) ==
    /\ Len(suffix) <= Len(s)
    /\ from(s, Len(s) - Len(suffix)) = suffix

\* str.replace(old, new): every non-overlapping occurrence, left to right
RECURSIVE replace(_, _, _)
replace(s, old, new) ==
    IF Len(s) < Len(old) \/ old = <<>> THEN s
    ELSE IF startswith(s, old) THEN new \o replace(from(s, Len(old)), old, new)
    ELSE <<Head(s)>> \o replace(Tail(s), old, new)

\* str.find(c): 0-based index of the first c, -1 when there is none
RECURSIVE find(_, _)
find(s, c) ==
    IF s = <<>> THEN -1
    ELSE IF Head(s) = c THEN 0
    ELSE LET r == find(Tail(s), c) IN IF r < 0 THEN -1 ELSE r + 1

\* str.split('/')[0]: the text before the first '/'
split_first(s, c) == LET i == find(s, c) IN IF i < 0 THEN s ELSE upto(s, i)

\* whitespace removed by str.strip()
Whitespace == {" ", "\t", "\n"}

RECURSIVE rstrip_ws(_)
rstrip_ws(s) ==
    IF s # <<>> /\ s[Len(s)] \in Whitespace THEN rstrip_ws(upto(s, Len(s) - 1)) ELSE s

\* str.strip()
strip_nothing(s) == s
strip(s) == rstrip_ws(lstrip(s, Whitespace))

-----------------------------------------------------------------------------
(* urllib.parse.urlparse(url).netloc                                       *)

Letters == {"a", "h", "p", "s", "t", "w", "A", "H", "P", "S", "T", "W"}
SchemeChars == Letters \cup {".", "+", "-"}
NetlocDelims == {"/", "?", "#"}

\* end of the network location: the first of '/', '?', '#', else the end of the text
RECURSIVE netloc_end(_)
netloc_end(s) ==
    IF s = <<>> \/ Head(s) \in NetlocDelims THEN 0 ELSE 1 + netloc_end(Tail(s))

\* the text after "<scheme>:" when the text starts with a scheme, else the text
after_scheme(s) ==
    LET i == find(s, ":") IN
    IF i > 0 /\ s[1] \in Letters /\ \A k \in 1..i : s[k] \in SchemeChars
    THEN from(s, i + 1)
    ELSE s

netloc(s) ==
    LET rest == after_scheme(s) IN
    IF startswith(rest, <<"/", "/">>)
    THEN upto(from(rest, 2), netloc_end(from(rest, 2)))
    ELSE <<>>

-----------------------------------------------------------------------------
(* Window.is_prioritized                                                   *)

\* result_domain = parsed_url.netloc.lower().lstrip('www.')
result_domain_no_lower(u) == lstrip(netloc(u), WwwChars)
result_domain(u) == lstrip(lower(netloc(u)), WwwChars)

\* the pattern's domain, with the fallback for a pattern without a netloc
site_domain(site) ==
    LET d == lstrip(lower(netloc(site)), WwwChars) IN
    IF d = <<>>
    THEN lstrip(lower(split_first(replace(replace(site, HTTP, <<>>), HTTPS, <<>>), "/")),
                WwwChars)
    ELSE d

\* the loop over self.prioritized_sites, from pattern k on: True at the first match
RECURSIVE sites_loop(_, _, _)
sites_loop(u, sites, k) ==
    IF k > Len(sites) THEN FALSE
    ELSE IF endswith(result_domain(u), site_domain(sites[k])) THEN TRUE
    ELSE sites_loop(u, sites, k + 1)

is_prioritized_first_only(u, sites) ==
    sites # <<>> /\ endswith(result_domain(u), site_domain(sites[1]))
is_prioritized(u, sites) == sites_loop(u, sites, 1)

-----------------------------------------------------------------------------
(* The is_prioritized call under test: its inputs.                         *)

\* host characters: the two that 'www.' denotes and one that it does not
HostChars == {"w", ".", "a"}

\* every text over HostChars of length at most n
RECURSIVE Texts(_)
Texts(n) ==
    IF n = 0 THEN {<<>>}
    ELSE LET shorter == Texts(n - 1) IN
         shorter \cup {<<c>> \o t : c \in HostChars, t \in {x \in shorter : Len(x) = n - 1}}

Cores == Texts(MaxDomainLen)

upper_char(c) == CASE c = "w" -> "W" [] c = "a" -> "A" [] OTHER -> c
RECURSIVE upper(_)
upper(s) == IF s = <<>> THEN <<>> ELSE <<upper_char(Head(s))>> \o upper(Tail(s))

PathA == <<"/", "a">>

\* result URLs: with and without scheme, "www.", upper case and path
CheckedUrls ==
    UNION {{ d,
             HTTP \o d,
             HTTPS \o d \o PathA,
             HTTP \o WWW \o d \o PathA,
             HTTPS \o WWW \o d,
             HTTPS \o upper(WWW \o d) \o PathA,
             HTTP \o upper(d) } : d \in Cores}

\* patterns: bare domains in either case, with "www.", and URLs
BarePatterns == Cores \cup {upper(d) : d \in Cores}
Patterns ==
    BarePatterns \cup UNION {{ WWW \o d, HTTPS \o d, HTTP \o WWW \o d \o PathA } : d \in Cores}

\* a second pattern beside the first: one that is a bare domain, one that is a URL
SecondPatterns == {<<"a">>, HTTPS \o <<"w", "a">>}

\* pattern lists: empty, one pattern, or one pattern before or after a second one
CheckedSiteLists ==
    {<<>>} \cup {<<p>> : p \in Patterns}
           \cup {<<p, q>> : p \in Patterns, q \in SecondPatterns}
           \cup {<<q, p>> : p \in Patterns, q \in SecondPatterns}

GuiInit ==
    /\ browser_windows = <<>>
    /\ search_input = <<>>
    /\ results_layout = <<>>
    /\ provider_calls = 0
    /\ last_results = <<>>
    /\ last_outcome = "none"
    /\ uncaught = FALSE
    /\ trace = [op |-> "init"]

InitIsPrioritized ==
    /\ GuiInit
    /\ prioritized_sites \in CheckedSiteLists
    /\ url \in CheckedUrls
    /\ ret = "none"
    /\ pc = "call"

\* one call of self.is_prioritized(url)
CallIsPrioritized ==
    /\ pc = "call"
    /\ ret' = is_prioritized(url, prioritized_sites)
    /\ pc' = "done"
    /\ UNCHANGED <<prioritized_sites, url>>
    /\ UNCHANGED gui_vars

NextIsPrioritized == CallIsPrioritized

SpecIsPrioritized == InitIsPrioritized /\ [][NextIsPrioritized]_vars

-----------------------------------------------------------------------------
(* The search window: provider results, widgets and handlers.              *)

UrlA == HTTPS \o <<"a">>
UrlB == HTTPS \o <<"a", ".", "w">>

\* records the provider can return: two complete ones and one without href and body
ProviderRecords ==
    { [href |-> UrlA, title |-> "T1", body |-> "B1"],
      [href |-> UrlB, title |-> "T2", body |-> "B2"],
      [title |-> "T3"] }

RECURSIVE SeqsUpTo(_, _)
SeqsUpTo(S, n) ==
    IF n = 0 THEN {<<>>}
    ELSE LET shorter == SeqsUpTo(S, n - 1) IN
         shorter \cup {Append(q, x) : q \in {y \in shorter : Len(y) = n - 1}, x \in S}

\* what one ddgs.text call can do: return a list of records, or raise
ProviderErrors == {"DuckDuckGoSearchException"}
ProviderOutcomes ==
    {[raised |-> FALSE, results |-> rs] : rs \in SeqsUpTo(ProviderRecords, MaxReturned)}
        \cup {[raised |-> TRUE, exc |-> e] : e \in ProviderErrors}

\* the exception classes an "except Exception" clause catches
ExceptionSubclasses == {"DuckDuckGoSearchException", "TimeoutException", "ValueError"}

\* texts typed into the query box
QueryTexts == {<<>>, <<" ">>, <<" ", "q">>}

\* pattern lists that sites.jsonc can hold (none when the file is absent)
ConfiguredSiteLists == {<<>>, <<<<"a">>>>}

\* dict.get(key, default)
get(r, key, default) == IF key \in DOMAIN r THEN r[key] ELSE default

\* the url bound by "lambda url=href" when the k-th label is connected
connect_clicked_last(results, k) == get(results[Len(results)], "href", <<>>)
connect_clicked(results, k) == get(results[k], "href", <<>>)

\* the ClickableLabel built for the k-th result
result_label(results, k, sites) ==
    LET href == get(results[k], "href", <<>>) IN
    [ kind |-> "result",
      href |-> href,
      title |-> get(results[k], "title", "No title"),
      body |-> get(results[k], "body", "No description available"),
      priority |-> is_prioritized(href, sites),
      slot_url |-> connect_clicked(results, k) ]

RECURSIVE labels_from(_, _, _)
labels_from(results, k, sites) ==
    IF k > Len(results) THEN <<>>
    ELSE <<result_label(results, k, sites)>> \o labels_from(results, k + 1, sites)

\* Window.display_results: one label per result, added in the order of the results
display_results_priority_first(layout, results, sites) ==
    LET labels == labels_from(results, 1, sites) IN
    layout \o SelectSeq(labels, LAMBDA w : w.priority)
           \o SelectSeq(labels, LAMBDA w : ~w.priority)
display_results(layout, results, sites) == layout \o labels_from(results, 1, sites)

\* the loop of search() that unparents every widget of the layout
clear_layout_nothing(layout) == layout
RECURSIVE clear_layout_forward(_)
clear_layout_forward(layout) ==
    IF Len(layout) < 2 THEN <<>>
    ELSE <<layout[2]>> \o clear_layout_forward(Tail(Tail(layout)))
clear_layout(layout) == <<>>

\* try: results = ddgs.text(...)  except Exception: (log)
except_catches(exc) == exc \in ExceptionSubclasses

Init ==
    /\ GuiInit
    /\ prioritized_sites \in ConfiguredSiteLists
    /\ url = <<>>
    /\ ret = "none"
    /\ pc = "idle"

\* the user edits the query box
SetText ==
    /\ \E t \in QueryTexts : search_input' = t
    /\ trace' = [op |-> "text"]
    /\ UNCHANGED <<prioritized_sites, browser_windows, results_layout, provider_calls,
                   last_results, last_outcome, uncaught, url, ret, pc>>

\* Window.search, run on returnPressed
Search ==
    /\ trace' = [op |-> "search"]
    /\ UNCHANGED <<prioritized_sites, browser_windows, search_input, url, ret, pc>>
    /\ LET query == strip(search_input) IN
       IF query = <<>>
       THEN UNCHANGED <<results_layout, provider_calls, last_results, last_outcome, uncaught>>
       ELSE /\ provider_calls < MaxCalls
            /\ \E outcome \in ProviderOutcomes :
                 LET cleared == clear_layout(results_layout)
                     escapes == outcome.raised /\ ~except_catches(outcome.exc)
                     results == IF outcome.raised THEN <<>> ELSE outcome.results
                 IN  /\ provider_calls' = provider_calls + 1
                     /\ last_outcome' = IF outcome.raised THEN "raised" ELSE "ok"
                     /\ last_results' = results
                     /\ uncaught' = (uncaught \/ escapes)
                     /\ results_layout' =
                            IF escapes THEN cleared
                            ELSE display_results(cleared, results, prioritized_sites)

\* Window.open_browser_window, run by the clicked signal of the i-th label
Click ==
    /\ Len(browser_windows) < MaxWindows
    /\ \E i \in 1..Len(results_layout) :
         /\ browser_windows' = Append(browser_windows, results_layout[i].slot_url)
         /\ trace' = [op |-> "click", index |-> i]
    /\ UNCHANGED <<prioritized_sites, search_input, results_layout, provider_calls,
                   last_results, last_outcome, uncaught, url, ret, pc>>

Next == SetText \/ Search \/ Click

Spec == Init /\ [][Next]_vars

-----------------------------------------------------------------------------
(* Properties of is_prioritized, checked under SpecIsPrioritized.          *)

\* p is the tail of s left by some split of s
IsSuffixOf(p, s) == \E k \in 0..Len(s) : SubSeq(s, k + 1, Len(s)) = p

\* C1: is_prioritized(url) is true exactly when some pattern's extracted domain is
\* a suffix of the URL's extracted domain; it is false for an empty pattern list,
\* and a URL with an empty domain is prioritized only by a pattern with an empty domain.
C1_SuffixMatch ==
    pc = "done" =>
        /\ ret = (\E i \in 1..Len(prioritized_sites) :
                     IsSuffixOf(site_domain(prioritized_sites[i]), result_domain(url)))
        /\ (prioritized_sites = <<>> => ret = FALSE)
        /\ (result_domain(url) = <<>> /\ ret = TRUE =>
               \E i \in 1..Len(prioritized_sites) : site_domain(prioritized_sites[i]) = <<>>)

\* a call that returned True on the second of two patterns, the first not matching
C1_Witness ==
    /\ pc = "done"
    /\ ret = TRUE
    /\ Len(prioritized_sites) = 2
    /\ result_domain(url) # <<>>
    /\ ~IsSuffixOf(site_domain(prioritized_sites[1]), result_domain(url))
    /\ IsSuffixOf(site_domain(prioritized_sites[2]), result_domain(url))

\* C2: the normalisation removes exactly one leading literal "www." and leaves a
\* domain that does not start with "www." unchanged (stated for domains that start
\* with a label, not with a dot).
C2_StripsOnlyWwwPrefix ==
    pc = "done" =>
        LET d == lower(netloc(url)) IN
        /\ (~startswith(d, WWW) /\ ~startswith(d, <<".">>) => result_domain(url) = d)
        /\ (startswith(d, WWW) /\ ~startswith(from(d, Len(WWW)), WWW) =>
               result_domain(url) = from(d, Len(WWW)))

\* d is the domain p or a subdomain <label>.p of it
WithinDomain(d, p) ==
    \/ d = p
    \/ Len(d) > Len(p) + 1 /\ IsSuffixOf(<<".">> \o p, d)

\* C3: a URL is prioritized only when its domain is a pattern's (non-empty) domain
\* or a subdomain of it, never when it merely ends with the pattern's text.
C3_RespectsDomainBoundary ==
    pc = "done" /\ ret = TRUE =>
        \E i \in 1..Len(prioritized_sites) :
            LET p == site_domain(prioritized_sites[i]) IN
            p = <<>> \/ WithinDomain(result_domain(url), p)

\* a pattern with no scheme and no '/'
IsBareDomain(d) == find(d, "/") < 0 /\ find(d, ":") < 0

\* u is http(s)://d or http(s)://www.d, with or without a /<path>, the host in any case
IsUrlOfDomain(u, d) ==
    \E scheme \in {HTTP, HTTPS} :
        /\ startswith(u, scheme)
        /\ lower(split_first(from(u, Len(scheme)), "/")) \in {lower(d), WWW \o lower(d)}

\* C4: for a bare-domain pattern d of the list, every URL http(s)://d/<path> and
\* http(s)://www.d/<path>, in any letter case of the host, is prioritized.
C4_BareDomainMatches ==
    pc = "done" =>
        \A i \in 1..Len(prioritized_sites) :
            IsBareDomain(prioritized_sites[i]) /\ IsUrlOfDomain(url, prioritized_sites[i])
                => ret = TRUE

\* https://WWW.AA/a checked against the single bare pattern aa
C4_Witness ==
    /\ pc = "done"
    /\ ret = TRUE
    /\ prioritized_sites = <<<<"a", "a">>>>
    /\ url = HTTPS \o <<"W", "W", "W", ".", "A", "A">> \o PathA

-----------------------------------------------------------------------------
(* Properties of the search window, checked under Spec.                    *)

\* the query is empty or only whitespace
IsBlank(s) == \A i \in 1..Len(s) : s[i] \in Whitespace

\* C5: submitting an empty or whitespace-only query calls no provider, raises
\* nothing and leaves the results, the browser windows and the patterns unchanged.
C5_BlankQueryIsNoOp ==
    [][IsBlank(search_input) /\ trace'.op = "search" =>
          UNCHANGED <<results_layout, browser_windows, prioritized_sites,
                      provider_calls, last_outcome, uncaught>>]_vars

\* a whitespace-only query was submitted while results were on display
C5_Witness ==
    /\ trace.op = "search"
    /\ search_input = <<" ">>
    /\ results_layout # <<>>
    /\ provider_calls = 1

C7_NoResultsMessage ==
    trace.op = "search" /\ ~IsBlank(search_input) /\ provider_calls > 0
                        /\ last_results = <<>> =>
        \E k \in 1..Len(results_layout) : results_layout[k].kind = "no_results"

\* the URLs of the sequence are pairwise distinct
Distinct(urls) == \A i, j \in 1..Len(urls) : i # j => urls[i] # urls[j]

DisplayedUrls == [k \in 1..Len(results_layout) |-> results_layout[k].href]
ReturnedUrls == [k \in 1..Len(last_results) |-> get(last_results[k], "href", <<>>)]

\* C8 as stated: the URLs of the displayed results are pairwise distinct,
\* whatever the provider returned.
C8_DisplayedUrlsDistinct == Distinct(DisplayedUrls)

\* C8 amended: the displayed URLs are pairwise distinct whenever the URLs the
\* provider returned to the latest search are (a record without a URL counting
\* as the empty URL).
C8_DistinctWhenReturnedDistinct == Distinct(ReturnedUrls) => Distinct(DisplayedUrls)

\* two results with different URLs on display after a second search
C8_Witness ==
    /\ provider_calls = 2
    /\ Len(results_layout) = 2
    /\ Distinct(ReturnedUrls)
    /\ results_layout[1].href # results_layout[2].href

\* C9: the displayed list is the sequence the provider returned to the latest
\* non-empty-query search, entry for entry and in its order.
C9_DisplayIsLatestResults ==
    /\ Len(results_layout) = Len(last_results)
    /\ \A k \in 1..Len(results_layout) :
          /\ results_layout[k].href = get(last_results[k], "href", <<>>)
          /\ results_layout[k].title = get(last_results[k], "title", "No title")
          /\ results_layout[k].body = get(last_results[k], "body", "No description available")

\* after a second search, a prioritized result is displayed below one that is not
C9_Witness ==
    /\ provider_calls = 2
    /\ Len(results_layout) = 2
    /\ ~results_layout[1].priority
    /\ results_layout[2].priority

\* C10: a click on the i-th result appends one browser window, on the URL of that
\* result, and changes neither the displayed results nor the patterns.
C10_ClickOpensThatResult ==
    [][trace'.op = "click" =>
          /\ trace'.index \in 1..Len(results_layout)
          /\ browser_windows' =
                 Append(browser_windows, results_layout[trace'.index].href)
          /\ UNCHANGED <<results_layout, prioritized_sites>>]_vars

\* the first of two results with different URLs was clicked, a window being open already
C10_Witness ==
    /\ trace.op = "click"
    /\ trace.index = 1
    /\ Len(results_layout) = 2
    /\ results_layout[1].href # results_layout[2].href
    /\ Len(browser_windows) = 2
    /\ browser_windows[2] = results_layout[1].href

====
